---- MODULE Spec2Model ----
(***************************************************************************)
(* Model of package dynamodb (src/dynamodb/dynamodb.go): the helpers       *)
(* WriteRecord, WriteRecords, QueryRecords and QueryRecordWithFilter and   *)
(* the backend (PutItem, BatchWriteItem, Query) they call.  One behaviour  *)
(* is one call of one helper.  The backend is the environment: each of its *)
(* answers is a nondeterministic choice.  requests and responses record    *)
(* what the backend received and answered, in order; store is the set of   *)
(* items the backend has written.                                          *)
(***************************************************************************)
EXTENDS Integers, Sequences, FiniteSets

VARIABLES op, pc, args, i, length, input, output, requests, responses, store, ret

vars == <<op, pc, args, i, length, input, output, requests, responses, store, ret>>

(* ---------------------------- bounds ---------------------------------- *)

\* longest slice handed to WriteRecords
MaxLen == 51

\* most Query requests the backend lets one call page through
MaxPages == 3

(* ------------------------- program constants --------------------------- *)

\* the literal 25 of WriteRecords
BatchSize == 25

(* ------------------------------ values --------------------------------- *)

\* the nil error
NoErr == "nil"

\* errors the backend can answer a request with
BackendErrors == {"ThrottlingException", "ValidationException"}

\* error of data.Payload()
PayloadErrors == {"MarshalError"}

\* the records (attribute-value maps) of the model, named by a number
Items == {1, 2}

Tables == {"t1", "t2"}

Indexes == {"ix1"}

KeyNames == {"pk"}

KeyValues == {"v1"}

\* expression.ConditionBuilder values: the zero value is unset
Conditions == {"unset", "f1"}

\* a Go map[string]*AttributeValue: nil, or a non-nil map with its keys
NilKey == [isNil |-> TRUE, attrs |-> {}]

EmptyKey == [isNil |-> FALSE, attrs |-> {}]

\* the values result.LastEvaluatedKey can take
Keys == {NilKey, EmptyKey, [isNil |-> FALSE, attrs |-> {"k1"}], [isNil |-> FALSE, attrs |-> {"k2"}]}

\* the value of ret before the call has returned
NoRet == [err |-> "running", output |-> <<>>]

Range(s) == {s[k] : k \in 1..Len(s)}

(* --------------------------- WriteRecord ------------------------------- *)

\* WriteRecord without the check of the conversion error
WriteRecordUnchecked ==
    /\ pc = "idle"
    /\ \E table \in Tables, item \in Items, err \in {NoErr} \cup PayloadErrors :
        /\ op' = "WriteRecord"
        /\ args' = [table |-> table, item |-> item, payloadErr |-> err]
    /\ pc' = "put"
    /\ UNCHANGED <<i, length, input, output, requests, responses, store, ret>>

\* item, err := data.Payload(); a failed conversion returns before PutItem
WriteRecord ==
    /\ pc = "idle"
    /\ \E table \in Tables, item \in Items, err \in {NoErr} \cup PayloadErrors :
        /\ op' = "WriteRecord"
        /\ args' = [table |-> table, item |-> item, payloadErr |-> err]
        /\ IF err # NoErr
             THEN /\ pc' = "done"
                  /\ ret' = [err |-> err, output |-> <<>>]
             ELSE /\ pc' = "put"
                  /\ ret' = ret
    /\ UNCHANGED <<i, length, input, output, requests, responses, store>>

\* client.PutItem(input) and the return of its error
PutItem ==
    /\ op = "WriteRecord"
    /\ pc = "put"
    /\ requests' = Append(requests, [api |-> "PutItem", table |-> args.table, items |-> <<args.item>>])
    /\ \E err \in {NoErr} \cup BackendErrors :
        /\ responses' = Append(responses, [err |-> err, unprocessed |-> {}])
        /\ store' = IF err = NoErr THEN store \cup {args.item} ELSE store
        /\ ret' = [err |-> err, output |-> <<>>]
    /\ pc' = "done"
    /\ UNCHANGED <<op, args, i, length, input, output>>

(* --------------------------- WriteRecords ------------------------------ *)

\* the chunk count by integer division, without the rounding up
NumChunksFloor(n) == n \div BatchSize

\* the chunk count with a request for the empty slice too
NumChunksAtLeastOne(n) == IF n <= BatchSize THEN 1 ELSE ((n - 1) \div BatchSize) + 1

\* int(math.Ceil(float64(len(data)) / float64(25)))
NumChunks(n) == IF n % BatchSize = 0 THEN n \div BatchSize ELSE (n \div BatchSize) + 1

\* the chunks with the upper index of a full chunk one short
ChunkOffByOne(data, k, len) ==
    IF k < len - 1
      THEN SubSeq(data, k * BatchSize + 1, (k + 1) * BatchSize - 1)
      ELSE SubSeq(data, k * BatchSize + 1, Len(data))

\* data[i*25 : (i+1)*25] for every chunk but the last, data[i*25:] for the last
Chunk(data, k, len) ==
    IF k < len - 1
      THEN SubSeq(data, k * BatchSize + 1, (k + 1) * BatchSize)
      ELSE SubSeq(data, k * BatchSize + 1, Len(data))

\* the UnprocessedItems a successful BatchWriteItem can report for a chunk
UnprocessedChoices(chunk) ==
    IF chunk = <<>> THEN {{}}
    ELSE {{}, {chunk[1]}, {chunk[Len(chunk)]}, Range(chunk)}

\* entry of WriteRecords: length is computed, i := 0
WriteRecords ==
    /\ pc = "idle"
    /\ \E table \in Tables, n \in 0..MaxLen :
        /\ op' = "WriteRecords"
        /\ args' = [table |-> table, data |-> [k \in 1..n |-> k]]
        /\ length' = NumChunks(n)
    /\ i' = 0
    /\ pc' = "loop"
    /\ UNCHANGED <<input, output, requests, responses, store, ret>>

\* the loop iteration without the return on error
BatchWriteItemIgnoreErr ==
    /\ op = "WriteRecords"
    /\ pc = "loop"
    /\ i < length
    /\ LET temp == Chunk(args.data, i, length) IN
        /\ requests' = Append(requests, [api |-> "BatchWriteItem", table |-> args.table, items |-> temp])
        /\ \/ \E err \in BackendErrors :
                /\ responses' = Append(responses, [err |-> err, unprocessed |-> {}])
                /\ store' = store
           \/ \E u \in UnprocessedChoices(temp) :
                /\ responses' = Append(responses, [err |-> NoErr, unprocessed |-> u])
                /\ store' = store \cup (Range(temp) \ u)
    /\ i' = i + 1
    /\ UNCHANGED <<op, args, length, input, output, pc, ret>>

\* the loop iteration returning an error when the response has unprocessed items
BatchWriteItemReportUnprocessed ==
    /\ op = "WriteRecords"
    /\ pc = "loop"
    /\ i < length
    /\ LET temp == Chunk(args.data, i, length) IN
        /\ requests' = Append(requests, [api |-> "BatchWriteItem", table |-> args.table, items |-> temp])
        /\ \/ \E err \in BackendErrors :
                /\ responses' = Append(responses, [err |-> err, unprocessed |-> {}])
                /\ ret' = [err |-> err, output |-> <<>>]
                /\ pc' = "done"
                /\ UNCHANGED <<i, store>>
           \/ \E u \in UnprocessedChoices(temp) :
                /\ responses' = Append(responses, [err |-> NoErr, unprocessed |-> u])
                /\ store' = store \cup (Range(temp) \ u)
                /\ IF u = {}
                     THEN /\ i' = i + 1
                          /\ UNCHANGED <<pc, ret>>
                     ELSE /\ ret' = [err |-> "UnprocessedItems", output |-> <<>>]
                          /\ pc' = "done"
                          /\ i' = i
    /\ UNCHANGED <<op, args, length, input, output>>

\* one iteration of the for loop: build temp, BatchWriteItem, return on error
BatchWriteItem ==
    /\ op = "WriteRecords"
    /\ pc = "loop"
    /\ i < length
    /\ LET temp == Chunk(args.data, i, length) IN
        /\ requests' = Append(requests, [api |-> "BatchWriteItem", table |-> args.table, items |-> temp])
        /\ \/ \E err \in BackendErrors :
                /\ responses' = Append(responses, [err |-> err, unprocessed |-> {}])
                /\ ret' = [err |-> err, output |-> <<>>]
                /\ pc' = "done"
                /\ UNCHANGED <<i, store>>
           \/ \E u \in UnprocessedChoices(temp) :
                /\ responses' = Append(responses, [err |-> NoErr, unprocessed |-> u])
                /\ store' = store \cup (Range(temp) \ u)
                /\ i' = i + 1
                /\ UNCHANGED <<pc, ret>>
    /\ UNCHANGED <<op, args, length, input, output>>

\* the loop condition fails: return nil
WriteRecordsReturn ==
    /\ op = "WriteRecords"
    /\ pc = "loop"
    /\ ~(i < length)
    /\ ret' = [err |-> NoErr, output |-> <<>>]
    /\ pc' = "done"
    /\ UNCHANGED <<op, args, i, length, input, output, requests, responses, store>>

(* ------------------- expression builder (SDK) --------------------------- *)

\* expression.KeyConditionBuilder values: the zero value is unset
UnsetKeyCondition == [mode |-> "unset", key |-> "none", value |-> "none"]

\* expression.Key(key).Equal(expression.Value(value))
KeyEqual(key, value) == [mode |-> "equal", key |-> key, value |-> value]

KeyConditions == {UnsetKeyCondition} \cup {KeyEqual(k, v) : k \in KeyNames, v \in KeyValues}

\* expression.NewBuilder().WithFilter(f).WithKeyCondition(kc).Build():
\* an unset builder is an error, otherwise the expression with its
\* aliased names and values, its key condition and its filter
Build(keyCondition, filter) ==
    IF keyCondition.mode = "unset" \/ filter = "unset"
      THEN [err |-> "UnsetParameterError", names |-> <<>>, values |-> <<>>,
            keyCondition |-> "none", filter |-> "none"]
      ELSE [err |-> NoErr, names |-> <<keyCondition.key, filter>>,
            values |-> <<keyCondition.value, filter>>,
            keyCondition |-> "#0 = :0", filter |-> filter]

(* ------------------------- Query backend -------------------------------- *)

\* the Items of one page
PageItems == {<<>>, <<1>>, <<2>>, <<1, 2>>}

\* what the backend can answer the n-th Query of a call with: an error, or a
\* page with its LastEvaluatedKey (the last page allowed carries none)
QueryResponses(n) ==
    {[err |-> e, items |-> <<>>, lastEvaluatedKey |-> NilKey] : e \in BackendErrors}
    \cup {[err |-> NoErr, items |-> it, lastEvaluatedKey |-> k] :
            it \in PageItems, k \in IF n < MaxPages THEN Keys ELSE {NilKey}}

\* the error returned with the items accumulated so far
QueryErrorReturnPartial(err, out) == [err |-> err, output |-> out]

\* the page kept in place of the accumulated items
ReplaceItems(out, items) == items

\* the request left as it was
KeepInput(inp, lek) == inp

\* return nil, err
QueryErrorReturn(err, out) == [err |-> err, output |-> <<>>]

\* output = append(output, result.Items...)
AppendItems(out, items) == out \o items

\* input.ExclusiveStartKey = result.LastEvaluatedKey
WithExclusiveStartKey(inp, lek) == [inp EXCEPT !.ExclusiveStartKey = lek]

(* --------------------------- QueryRecords ------------------------------ *)

\* lines 75-88: key condition, Build, the QueryInput, var output
QueryRecords ==
    /\ pc = "idle"
    /\ \E table \in Tables, index \in Indexes, key \in KeyNames, value \in KeyValues,
          condition \in Conditions :
        LET keyCondition == KeyEqual(key, value)
            expr == Build(keyCondition, condition) IN
        /\ op' = "QueryRecords"
        /\ args' = [table |-> table, index |-> index, keyCondition |-> keyCondition,
                    filter |-> condition]
        /\ IF expr.err # NoErr
             THEN /\ ret' = [err |-> expr.err, output |-> <<>>]
                  /\ pc' = "done"
                  /\ input' = input
             ELSE /\ input' = [ExpressionAttributeNames |-> expr.names,
                               ExpressionAttributeValues |-> expr.values,
                               KeyConditionExpression |-> expr.keyCondition,
                               FilterExpression |-> expr.filter,
                               IndexName |-> index,
                               TableName |-> table,
                               ExclusiveStartKey |-> NilKey]
                  /\ pc' = "loop"
                  /\ ret' = ret
    /\ output' = <<>>
    /\ UNCHANGED <<i, length, requests, responses, store>>

\* lines 89-100: one iteration of the for loop, with the return it ends in
QueryRecordsPage ==
    /\ op = "QueryRecords"
    /\ pc = "loop"
    /\ requests' = Append(requests, input)
    /\ \E result \in QueryResponses(Len(requests) + 1) :
        /\ responses' = Append(responses, result)
        /\ IF result.err # NoErr
             THEN /\ ret' = QueryErrorReturn(result.err, output)
                  /\ pc' = "done"
                  /\ UNCHANGED <<input, output>>
             ELSE /\ output' = AppendItems(output, result.items)
                  /\ IF result.lastEvaluatedKey.isNil
                       THEN /\ ret' = [err |-> NoErr, output |-> output']
                            /\ pc' = "done"
                            /\ input' = input
                       ELSE /\ input' = WithExclusiveStartKey(input, result.lastEvaluatedKey)
                            /\ UNCHANGED <<pc, ret>>
    /\ UNCHANGED <<op, args, i, length, store>>

(* ----------------------- QueryRecordWithFilter -------------------------- *)

\* lines 105-116: Build, var output, the QueryInput (no IndexName)
QueryRecordWithFilter ==
    /\ pc = "idle"
    /\ \E table \in Tables, condition \in KeyConditions, filter \in Conditions :
        LET expr == Build(condition, filter) IN
        /\ op' = "QueryRecordWithFilter"
        /\ args' = [table |-> table, index |-> "nil", keyCondition |-> condition,
                    filter |-> filter]
        /\ IF expr.err # NoErr
             THEN /\ ret' = [err |-> expr.err, output |-> <<>>]
                  /\ pc' = "done"
                  /\ input' = input
             ELSE /\ input' = [ExpressionAttributeNames |-> expr.names,
                               ExpressionAttributeValues |-> expr.values,
                               KeyConditionExpression |-> expr.keyCondition,
                               FilterExpression |-> expr.filter,
                               IndexName |-> "nil",
                               TableName |-> table,
                               ExclusiveStartKey |-> NilKey]
                  /\ pc' = "loop"
                  /\ ret' = ret
    /\ output' = <<>>
    /\ UNCHANGED <<i, length, requests, responses, store>>

\* lines 117-128: one iteration of the for loop, with the return it ends in
QueryRecordWithFilterPage ==
    /\ op = "QueryRecordWithFilter"
    /\ pc = "loop"
    /\ requests' = Append(requests, input)
    /\ \E result \in QueryResponses(Len(requests) + 1) :
        /\ responses' = Append(responses, result)
        /\ IF result.err # NoErr
             THEN /\ ret' = QueryErrorReturn(result.err, output)
                  /\ pc' = "done"
                  /\ UNCHANGED <<input, output>>
             ELSE /\ output' = AppendItems(output, result.items)
                  /\ IF result.lastEvaluatedKey.isNil
                       THEN /\ ret' = [err |-> NoErr, output |-> output']
                            /\ pc' = "done"
                            /\ input' = input
                       ELSE /\ input' = WithExclusiveStartKey(input, result.lastEvaluatedKey)
                            /\ UNCHANGED <<pc, ret>>
    /\ UNCHANGED <<op, args, i, length, store>>

(* ------------------------------ system --------------------------------- *)

Init ==
    /\ op = "none"
    /\ pc = "idle"
    /\ args = [table |-> "none"]
    /\ i = 0
    /\ length = 0
    /\ input = [TableName |-> "none"]
    /\ output = <<>>
    /\ requests = <<>>
    /\ responses = <<>>
    /\ store = {}
    /\ ret = NoRet

Next ==
    \/ WriteRecord
    \/ PutItem
    \/ WriteRecords
    \/ BatchWriteItem
    \/ WriteRecordsReturn
    \/ QueryRecords
    \/ QueryRecordsPage
    \/ QueryRecordWithFilter
    \/ QueryRecordWithFilterPage

Spec == Init /\ [][Next]_vars

(* ------------------------- claim vocabulary ---------------------------- *)

QueryOps == {"QueryRecords", "QueryRecordWithFilter"}

\* the least k with k * d >= n
CeilDiv(n, d) == CHOOSE k \in 0..n : k * d >= n /\ (k - 1) * d < n

Min(a, b) == IF a <= b THEN a ELSE b

\* the j-th block of BatchSize consecutive elements of data (j from 1)
ExpectedChunk(data, j) == SubSeq(data, (j - 1) * BatchSize + 1, Min(j * BatchSize, Len(data)))

RECURSIVE ConcatItems(_, _)
\* the items of the first n requests, concatenated in issue order
ConcatItems(reqs, n) == IF n = 0 THEN <<>> ELSE ConcatItems(reqs, n - 1) \o reqs[n].items

\* a WriteRecords call that has returned nil
WriteRecordsSucceeded == op = "WriteRecords" /\ pc = "done" /\ ret.err = NoErr

\* a LastEvaluatedKey that is empty or absent
EmptyOrAbsent(key) == key.attrs = {}

(* ------------------------------ C1 -------------------------------------- *)

\* C1 as stated: a WriteRecords call that returns nil has issued exactly one
\* request when 0 <= L <= 25, and ceil(L/25) requests when L > 25, the last
\* with L mod 25 items (25 when 25 divides L)
C1_AsStated ==
    WriteRecordsSucceeded =>
        LET L == Len(args.data) IN
        /\ (L <= BatchSize) => Len(requests) = 1
        /\ (L > BatchSize) =>
              /\ Len(requests) = CeilDiv(L, BatchSize)
              /\ Len(requests[Len(requests)].items) =
                    (IF L % BatchSize = 0 THEN BatchSize ELSE L % BatchSize)

\* C1 amended: a WriteRecords call that returns nil has issued no request
\* when L = 0, exactly one when 1 <= L <= 25, and ceil(L/25) requests when
\* L > 25, the last with L mod 25 items (25 when 25 divides L)
C1_RequestCount ==
    WriteRecordsSucceeded =>
        LET L == Len(args.data) IN
        /\ (L = 0) => Len(requests) = 0
        /\ (1 <= L /\ L <= BatchSize) => Len(requests) = 1
        /\ (L > BatchSize) =>
              /\ Len(requests) = CeilDiv(L, BatchSize)
              /\ Len(requests[Len(requests)].items) =
                    (IF L % BatchSize = 0 THEN BatchSize ELSE L % BatchSize)

C1_Witness ==
    /\ WriteRecordsSucceeded
    /\ Len(args.data) = 2 * BatchSize + 1
    /\ Len(requests) = 3
    /\ Len(requests[3].items) = 1

(* ------------------------------ C2 -------------------------------------- *)

\* C2: WriteRecords on the empty slice makes no backend call and returns nil
C2_EmptyInput ==
    (op = "WriteRecords" /\ Len(args.data) = 0) =>
        /\ requests = <<>>
        /\ store = {}
        /\ pc = "done" => ret.err = NoErr

C2_Witness == op = "WriteRecords" /\ pc = "done" /\ args.data = <<>> /\ ret.err = NoErr

(* ------------------------------ C3 -------------------------------------- *)

\* C3: the requests of WriteRecords are the chunks of the input in order, each
\* once; only the last request can have failed, and then the call has
\* returned that request's error; nil is returned only after every chunk's
\* request succeeded; what the successful requests wrote stays in the store
C3_FailFast ==
    op = "WriteRecords" =>
        /\ Len(responses) = Len(requests)
        /\ \A j \in 1..Len(requests) :
              /\ requests[j].api = "BatchWriteItem"
              /\ requests[j].items = ExpectedChunk(args.data, j)
        /\ \A j \in 1..Len(responses) :
              responses[j].err # NoErr =>
                  /\ j = Len(responses)
                  /\ pc = "done"
                  /\ ret.err = responses[j].err
        /\ (pc = "done" /\ ret.err = NoErr) =>
              /\ Len(requests) = CeilDiv(Len(args.data), BatchSize)
              /\ \A j \in 1..Len(responses) : responses[j].err = NoErr
        /\ store = UNION {Range(requests[j].items) \ responses[j].unprocessed :
                            j \in {k \in 1..Len(responses) : responses[k].err = NoErr}}

C3_Witness ==
    /\ op = "WriteRecords"
    /\ pc = "done"
    /\ Len(requests) = 2
    /\ Len(args.data) > 2 * BatchSize
    /\ ret.err \in BackendErrors
    /\ store # {}

(* ------------------------------ C7 -------------------------------------- *)

\* C7: items a successful BatchWriteItem reports as unprocessed are never
\* sent again and are not written; the loop moves on to the next chunk, and
\* a call whose requests all succeeded returns nil whatever was unprocessed
C7_UnprocessedIgnored ==
    op = "WriteRecords" =>
        /\ \A j \in 1..Len(responses) :
              /\ \A k \in (j + 1)..Len(requests) :
                    responses[j].unprocessed \cap Range(requests[k].items) = {}
              /\ responses[j].unprocessed \cap store = {}
        /\ pc = "loop" => i = Len(responses)
        /\ (pc = "done" /\ \A j \in 1..Len(responses) : responses[j].err = NoErr) =>
              ret.err = NoErr

C7_Witness ==
    /\ WriteRecordsSucceeded
    /\ Len(requests) = 2
    /\ responses[1].unprocessed # {}
    /\ store # Range(args.data)

(* ------------------------------ C9 -------------------------------------- *)

\* C9: every chunk sent holds 1 to 25 items, every chunk before the last one
\* sent holds 25, the chunks sent so far concatenate to a prefix of the
\* input, and to the whole input once the call has returned nil
C9_Partition ==
    op = "WriteRecords" =>
        /\ \A j \in 1..Len(requests) :
              /\ Len(requests[j].items) >= 1
              /\ Len(requests[j].items) <= BatchSize
              /\ j < Len(requests) => Len(requests[j].items) = BatchSize
        /\ LET sent == ConcatItems(requests, Len(requests)) IN
              /\ Len(sent) <= Len(args.data)
              /\ sent = SubSeq(args.data, 1, Len(sent))
              /\ (pc = "done" /\ ret.err = NoErr) => sent = args.data

C9_Witness ==
    /\ WriteRecordsSucceeded
    /\ Len(requests) = 3
    /\ Len(requests[1].items) = BatchSize
    /\ Len(requests[3].items) < BatchSize

(* ------------------------------ C6 -------------------------------------- *)

\* C6: WriteRecord with a failed conversion returns the conversion error and
\* issues no request; otherwise it issues exactly one PutItem of the item and
\* returns that request's error, or nil
C6_WriteRecord ==
    op = "WriteRecord" =>
        /\ args.payloadErr # NoErr =>
              /\ requests = <<>>
              /\ pc = "done"
              /\ ret.err = args.payloadErr
        /\ pc = "put" => requests = <<>>
        /\ (args.payloadErr = NoErr /\ pc = "done") =>
              /\ requests = <<[api |-> "PutItem", table |-> args.table, items |-> <<args.item>>]>>
              /\ Len(responses) = 1
              /\ ret.err = responses[1].err

C6_Witness ==
    /\ op = "WriteRecord"
    /\ pc = "done"
    /\ args.payloadErr \in PayloadErrors
    /\ ret.err = args.payloadErr

(* ------------------------------ C4 -------------------------------------- *)

\* C4: a query that returns nil error has issued one request per page, only
\* the last page has a nil LastEvaluatedKey, and the output is the pages'
\* items concatenated in order
C4_Concatenation ==
    (op \in QueryOps /\ pc = "done" /\ ret.err = NoErr) =>
        /\ Len(requests) = Len(responses)
        /\ Len(responses) >= 1
        /\ \A j \in 1..Len(responses) :
              /\ responses[j].err = NoErr
              /\ responses[j].lastEvaluatedKey.isNil <=> j = Len(responses)
        /\ ret.output = ConcatItems(responses, Len(responses))

C4_Witness ==
    /\ op \in QueryOps
    /\ pc = "done"
    /\ ret.err = NoErr
    /\ Len(requests) = 3
    /\ ret.output = <<1, 2, 2, 1>>

(* ------------------------------ C5 -------------------------------------- *)

\* C5: a failed Query request is the last request of the call, and the call
\* has returned its error with an empty output
C5_NoPartialResult ==
    op \in QueryOps =>
        \A j \in 1..Len(responses) :
            responses[j].err # NoErr =>
                /\ j = Len(responses)
                /\ Len(requests) = j
                /\ pc = "done"
                /\ ret = [err |-> responses[j].err, output |-> <<>>]

C5_Witness ==
    /\ op \in QueryOps
    /\ pc = "done"
    /\ Len(responses) = 2
    /\ responses[2].err \in BackendErrors
    /\ output # <<>>

(* ------------------------------ C8 -------------------------------------- *)

\* C8 as stated: a successful response whose cursor is empty or absent is
\* the last one: no request follows it and the call has returned
C8_AsStated ==
    op \in QueryOps =>
        \A j \in 1..Len(responses) :
            (responses[j].err = NoErr /\ EmptyOrAbsent(responses[j].lastEvaluatedKey)) =>
                /\ Len(requests) = j
                /\ pc = "done"

(* ------------------------------ C10 ------------------------------------- *)

\* C10: the first Query request has a nil ExclusiveStartKey, every later one
\* has the LastEvaluatedKey of the response before it, and the other fields
\* are those built from the arguments, the same in every request
C10_CursorThreading ==
    op \in QueryOps =>
        \A j \in 1..Len(requests) :
            /\ requests[j].ExclusiveStartKey =
                  (IF j = 1 THEN NilKey ELSE responses[j - 1].lastEvaluatedKey)
            /\ [requests[j] EXCEPT !.ExclusiveStartKey = NilKey]
                  = [requests[1] EXCEPT !.ExclusiveStartKey = NilKey]
            /\ requests[j].TableName = args.table
            /\ requests[j].IndexName = args.index
            /\ requests[j].FilterExpression = args.filter
            /\ requests[j].ExpressionAttributeNames = <<args.keyCondition.key, args.filter>>
            /\ requests[j].ExpressionAttributeValues = <<args.keyCondition.value, args.filter>>

C10_Witness ==
    /\ op \in QueryOps
    /\ Len(requests) = 3
    /\ ~requests[2].ExclusiveStartKey.isNil
    /\ requests[3].ExclusiveStartKey # requests[2].ExclusiveStartKey

====
